---------------------------- MODULE Spec2Model ----------------------------
(***************************************************************************)
(* Model of the paginated fetch-and-flatten pipeline of                    *)
(* aviationstack_data_ingestion.py and utils/transform_api_response.py.    *)
(*                                                                         *)
(* Spec        one run of call_api_endpoint under get_pages_decorator      *)
(*             (the Paginator), step by step: first fetch, sleep, later    *)
(*             fetches, return.                                            *)
(* SpecFlatten flatten_and_save_json applied to bounded lists of pages.    *)
(* SpecCsv     transform_flat_json_to_csv applied to bounded batches of    *)
(*             flat records, and again to the batch in another order.      *)
(* SpecRequest the request URL call_api_endpoint builds for one call.      *)
(* SpecMain    main: the Paginator run, then the files written, the        *)
(*             flattening and the tabulation.                              *)
(***************************************************************************)
EXTENDS Integers, Sequences, FiniteSets, TLC

VARIABLES
    kwargs,             \* the keyword arguments of call_api_endpoint
    PAGE_LIMIT_GLOBAL,  \* module global: page cap, -1 = all pages
    PAGE_SLEEP_GLOBAL,  \* module global: seconds to sleep between pages
    pc,                 \* position of the wrapper
    max_pages,          \* wrapper local
    offset,             \* wrapper local
    output_str,         \* wrapper local: the text built so far, as tokens
    api_resp_dict,      \* wrapper local: the last parsed response
    trace,              \* what the run did to the outside: requests, sleeps
    result,             \* the value returned to the caller
    err,                \* the exception that left the wrapper
    input_json,         \* flatten_and_save_json: its argument
    flat_json,          \* flatten_and_save_json: the returned text, as tokens
    fpc,                \* position of flatten_and_save_json
    csv_in,             \* transform_flat_json_to_csv: its argument
    csv_output,         \* transform_flat_json_to_csv: the returned text
    csv_perm,           \* the order in which the batch arrives a second time
    csv_output2,        \* the text returned for the batch in that order
    cpc,                \* position of transform_flat_json_to_csv
    req_url,            \* call_api_endpoint: the URL it requests
    rpc,                \* position of the URL construction
    api_data,           \* the data array the API serves on each page
    files,              \* the files main has written
    mpc                 \* position of main

pagvars == <<kwargs, PAGE_LIMIT_GLOBAL, PAGE_SLEEP_GLOBAL, pc, max_pages,
             offset, output_str, api_resp_dict, trace, result, err>>
flatvars == <<input_json, flat_json, fpc>>
csvvars == <<csv_in, csv_output, csv_perm, csv_output2, cpc>>
reqvars == <<req_url, rpc>>
mainvars == <<api_data, files, mpc>>
vars == <<pagvars, flatvars, csvvars, reqvars, mainvars>>

None == "None"

\* ---------------------------------------------------------------- bounds

\* totals reported by the API range over h*100 and h*100+50, h in 0..MaxHundreds
MaxHundreds == 2
\* positive page caps range over 1..MaxPagesCap
MaxPagesCap == 3
\* transform_flat_json_to_csv is given 0..MaxBatch flat records
MaxBatch == 2
\* the clock read for a row's timestamp shows 0..MaxClock
MaxClock == 1
\* flatten_and_save_json is given 1..MaxFlatPages pages
MaxFlatPages == 2
\* each with a data array of 0..MaxPageRecords records
MaxPageRecords == 2

\* ------------------------------------------------------ program constants

\* limit = 100 in the wrapper
limit == 100
\* the timetable route's minimum PAGE_SLEEP_GLOBAL
MIN_TIMETABLE_SLEEP == 62

\* ------------------------------------------------------------ input sets

Routes == {None, "flights", "timetable", "airports"}
Filter(v) == {None, v}
KwargsValues ==
    [api_route : Routes,
     departure_airport_iata : Filter("MKE"),
     arrival_airport_iata : Filter("ORD"),
     iataCode : Filter("MKE"),
     type : Filter("departure")]
PageLimitValues == {-2, -1, 0} \cup (1..MaxPagesCap)
PageSleepValues == {0, 30, MIN_TIMETABLE_SLEEP - 1, MIN_TIMETABLE_SLEEP}
TotalValues == {h * limit + r : h \in 0..MaxHundreds, r \in {0, 50}}

\* ------------------------------------------------------------- raw text

\* Text is a sequence of tokens: the one-character tokens "[", "," and "]"
\* and one token per embedded document.
Tok(c) == [tok |-> c]
LBRACKET == Tok("[")
RBRACKET == Tok("]")
COMMA == Tok(",")

\* A response body of the API: the page answering the request at offset
\* off, reporting pagination.total = total; wellformed = FALSE is a body
\* json.loads rejects.
Body(off, total, wf) ==
    [tok |-> "page", offset |-> off, total |-> total, wellformed |-> wf]
Bodies(off) ==
    {Body(off, t, TRUE) : t \in TotalValues} \cup {Body(off, 0, FALSE)}

\* json.loads raises on a body it rejects
json_raises(api_resp) == ~api_resp.wellformed

\* json.loads of one response body it accepts
json_loads(api_resp) ==
    [pagination |-> [total |-> api_resp.total], offset |-> api_resp.offset]

\* the outcome of parsing a text: the documents, or a rejection
Malformed == [ok |-> FALSE, docs |-> << >>]
Parsed(docs) == [ok |-> TRUE, docs |-> docs]

\* json.loads of a text that should hold an array of documents:
\* "[" ( doc ( "," doc )* )? "]"; the sequence of documents, or Malformed.
IsDoc(t) == t.tok \in {"page", "object"}
json_loads_array(text) ==
    LET n == Len(text)
        inner == SubSeq(text, 2, n - 1)
        m == n - 2
    IN  IF n < 2 \/ text[1] # LBRACKET \/ text[n] # RBRACKET THEN Malformed
        ELSE IF m = 0 THEN Parsed(<< >>)
        ELSE IF m % 2 = 0 THEN Malformed
        ELSE IF \E i \in 1..m :
                    \/ (i % 2 = 1 /\ ~IsDoc(inner[i]))
                    \/ (i % 2 = 0 /\ inner[i] # COMMA)
             THEN Malformed
        ELSE IF \E i \in 1..m : i % 2 = 1 /\ inner[i].tok = "page"
                                 /\ ~inner[i].wellformed
             THEN Malformed
        ELSE Parsed([i \in 1..((m + 1) \div 2) |-> inner[2 * i - 1]])

\* --------------------------------------------------- call_api_endpoint

\* form_aviationstack_api_call: the request, by its parameters
form_aviationstack_api_call(api_route, lim, off) ==
    [kind |-> "request", api_route |-> api_route, limit |-> lim, offset |-> off]

\* check_args without the timetable route's PAGE_SLEEP_GLOBAL check
check_args_no_sleep_check(kw, page_sleep) ==
    IF kw.api_route = None THEN "No API route specified."
    ELSE IF kw.api_route = "flights"
    THEN IF kw.departure_airport_iata = None /\ kw.arrival_airport_iata = None
         THEN "No departure or arrival airport specified"
         ELSE None
    ELSE IF kw.api_route = "timetable"
    THEN IF kw.iataCode = None \/ kw.type = None
         THEN "Must specify iataCode and type"
         ELSE None
    ELSE None

\* check_args asking the flights route for both airports (or for and)
check_args_flights_or(kw, page_sleep) ==
    IF kw.api_route = None THEN "No API route specified."
    ELSE IF kw.api_route = "flights"
    THEN IF kw.departure_airport_iata = None \/ kw.arrival_airport_iata = None
         THEN "No departure or arrival airport specified"
         ELSE None
    ELSE IF kw.api_route = "timetable"
    THEN IF kw.iataCode = None \/ kw.type = None
         THEN "Must specify iataCode and type"
         ELSE IF page_sleep < MIN_TIMETABLE_SLEEP
         THEN "PAGE_SLEEP_GLOBAL must be >= 62"
         ELSE None
    ELSE None

\* the error handling of call_api_endpoint: the exception raised, or None
check_args(kw, page_sleep) ==
    IF kw.api_route = None THEN "No API route specified."
    ELSE IF kw.api_route = "flights"
    THEN IF kw.departure_airport_iata = None /\ kw.arrival_airport_iata = None
         THEN "No departure or arrival airport specified"
         ELSE None
    ELSE IF kw.api_route = "timetable"
    THEN IF kw.iataCode = None \/ kw.type = None
         THEN "Must specify iataCode and type"
         ELSE IF page_sleep < MIN_TIMETABLE_SLEEP
         THEN "PAGE_SLEEP_GLOBAL must be >= 62"
         ELSE None
    ELSE None

\* urllib.request.urlopen(req_url) ... read ... decode: a body, or no body
\* (NoBody) when the transport raises
TransportError == "TransportError"
NoBody == [tok |-> "none"]
urlopen(req) == Bodies(req.offset) \cup {NoBody}

\* One call of call_api_endpoint(**kwargs, limit, offset): every outcome.
\*   raised   the exception that leaves the call, or None
\*   sent     the requests issued (none when the arguments are rejected)
\*   api_resp the returned body
call_api_endpoint(kw, page_sleep, lim, off) ==
    LET e == check_args(kw, page_sleep)
        req == form_aviationstack_api_call(kw.api_route, lim, off)
    IN  IF e # None
        THEN {[raised |-> e, sent |-> << >>, api_resp |-> NoBody]}
        ELSE {IF r = NoBody
              THEN [raised |-> TransportError,
                    sent |-> <<req @@ [failed |-> TRUE]>>,
                    api_resp |-> NoBody]
              ELSE [raised |-> None,
                    sent |-> <<req @@ [failed |-> FALSE]>>,
                    api_resp |-> r]
              : r \in urlopen(req)}

\* ---------------------------------------------------- get_pages_decorator

\* (total // limit) + 1
pages_possible(total, lim) == (total \div lim) + 1

\* lines 80-86: the loop bound from the first page's total
page_bound(mp, total, lim) ==
    LET mp1 == IF mp = -1 THEN pages_possible(total, lim) ELSE mp
    IN  IF pages_possible(total, lim) <= mp1 THEN pages_possible(total, lim) ELSE mp1

\* loop_cond with <= for <
loop_cond_le(off, lim, mp) == off <= mp * lim

\* while (offset / limit) < max_pages   (true division, limit > 0)
loop_cond(off, lim, mp) == off < mp * lim

\* sleep_needed with >= for >
sleep_needed_ge(page_sleep_time) == page_sleep_time >= 0

\* if page_sleep_time > 0
sleep_needed(page_sleep_time) == page_sleep_time > 0

\* next_offset stepping by one record for one page
next_offset_by_one(off, lim) == off + 1

\* next_offset leaving the offset where it is
next_offset_stuck(off, lim) == off

\* offset += limit
next_offset(off, lim) == off + lim

\* output_str = '['; output_str += api_resp
open_output(api_resp) == <<LBRACKET, api_resp>>

\* append_page without the separating comma
append_page_no_comma(out, api_resp) == out \o <<api_resp>>

\* output_str += ','; output_str += api_resp
append_page(out, api_resp) == out \o <<COMMA, api_resp>>

\* output_str += ']'
close_output(out) == out \o <<RBRACKET>>

\* a local not yet bound, a text not yet returned
NoDict == [unset |-> TRUE]
NoText == << >>

PagInit ==
    /\ kwargs \in KwargsValues
    /\ PAGE_LIMIT_GLOBAL \in PageLimitValues
    /\ PAGE_SLEEP_GLOBAL \in PageSleepValues
    /\ pc = "start"
    /\ max_pages = PAGE_LIMIT_GLOBAL
    /\ offset = 0
    /\ output_str = << >>
    /\ api_resp_dict = NoDict
    /\ trace = << >>
    /\ result = NoText
    /\ err = None

FlatIdle ==
    /\ input_json = << >>
    /\ flat_json = NoText
    /\ fpc = "idle"

CsvIdle ==
    /\ csv_in = << >>
    /\ csv_output = NoText
    /\ csv_perm = << >>
    /\ csv_output2 = NoText
    /\ cpc = "idle"

ReqIdle ==
    /\ req_url = << >>
    /\ rpc = "idle"

\* no file written
NoFiles == [raw |-> FALSE, flat |-> FALSE, csv |-> FALSE]

MainIdle ==
    /\ api_data = << >>
    /\ files = NoFiles
    /\ mpc = "idle"

Init == PagInit /\ FlatIdle /\ CsvIdle /\ ReqIdle /\ MainIdle

\* propagate as a handler that swallows the exception and lets the loop go on
propagate_swallowed(e) ==
    /\ pc' = "loop"
    /\ err' = None
    /\ UNCHANGED <<max_pages, offset, output_str, api_resp_dict>>

\* The wrapper catches nothing: an exception raised by the wrapped call
\* leaves the wrapper, whose locals are lost and which returns nothing.
propagate(e) ==
    /\ pc' = "error"
    /\ err' = e
    /\ UNCHANGED <<max_pages, offset, output_str, api_resp_dict>>

\* wrapper lines 50-90: the first fetch and the loop bound
FirstFetch ==
    /\ pc = "start"
    /\ \E out \in call_api_endpoint(kwargs, PAGE_SLEEP_GLOBAL, limit, offset) :
          /\ trace' = trace \o out.sent
          /\ IF out.raised # None
             THEN propagate(out.raised)
             ELSE /\ output_str' = open_output(out.api_resp)
                  /\ IF json_raises(out.api_resp)
                     THEN /\ pc' = "error"
                          /\ err' = "JSONDecodeError"
                          /\ UNCHANGED <<max_pages, offset, api_resp_dict>>
                     ELSE /\ api_resp_dict' = json_loads(out.api_resp)
                          /\ offset' = next_offset(offset, limit)
                          /\ max_pages' = page_bound(max_pages,
                                 api_resp_dict'.pagination.total, limit)
                          /\ pc' = "loop"
                          /\ err' = None
    /\ UNCHANGED <<kwargs, PAGE_LIMIT_GLOBAL, PAGE_SLEEP_GLOBAL, result>>
    /\ UNCHANGED <<flatvars, csvvars, reqvars, mainvars>>

\* wrapper lines 93-96: the loop is entered and the thread sleeps
LoopSleep ==
    /\ pc = "loop"
    /\ loop_cond(offset, limit, max_pages)
    /\ sleep_needed(PAGE_SLEEP_GLOBAL)
    /\ trace' = Append(trace, [kind |-> "sleep", secs |-> PAGE_SLEEP_GLOBAL])
    /\ pc' = "slept"
    /\ UNCHANGED <<kwargs, PAGE_LIMIT_GLOBAL, PAGE_SLEEP_GLOBAL, max_pages,
                   offset, output_str, api_resp_dict, result, err>>
    /\ UNCHANGED <<flatvars, csvvars, reqvars, mainvars>>

\* LoopFetch recomputing the loop bound from the total of the page just parsed
LoopFetch_rebound ==
    /\ \/ pc = "slept"
       \/ /\ pc = "loop"
          /\ loop_cond(offset, limit, max_pages)
          /\ ~sleep_needed(PAGE_SLEEP_GLOBAL)
    /\ \E out \in call_api_endpoint(kwargs, PAGE_SLEEP_GLOBAL, limit, offset) :
          /\ trace' = trace \o out.sent
          /\ IF out.raised # None
             THEN propagate(out.raised)
             ELSE /\ output_str' = append_page(output_str, out.api_resp)
                  /\ offset' = next_offset(offset, limit)
                  /\ IF json_raises(out.api_resp)
                     THEN /\ pc' = "error"
                          /\ err' = "JSONDecodeError"
                          /\ UNCHANGED <<api_resp_dict, max_pages>>
                     ELSE /\ api_resp_dict' = json_loads(out.api_resp)
                          /\ max_pages' = page_bound(PAGE_LIMIT_GLOBAL,
                                 api_resp_dict'.pagination.total, limit)
                          /\ pc' = "loop"
                          /\ err' = None
    /\ UNCHANGED <<kwargs, PAGE_LIMIT_GLOBAL, PAGE_SLEEP_GLOBAL, result>>
    /\ UNCHANGED <<flatvars, csvvars, reqvars, mainvars>>

\* wrapper lines 98-114: the next fetch of the loop
LoopFetch ==
    /\ \/ pc = "slept"
       \/ /\ pc = "loop"
          /\ loop_cond(offset, limit, max_pages)
          /\ ~sleep_needed(PAGE_SLEEP_GLOBAL)
    /\ \E out \in call_api_endpoint(kwargs, PAGE_SLEEP_GLOBAL, limit, offset) :
          /\ trace' = trace \o out.sent
          /\ IF out.raised # None
             THEN propagate(out.raised)
             ELSE /\ output_str' = append_page(output_str, out.api_resp)
                  /\ offset' = next_offset(offset, limit)
                  /\ UNCHANGED max_pages
                  /\ IF json_raises(out.api_resp)
                     THEN /\ pc' = "error"
                          /\ err' = "JSONDecodeError"
                          /\ UNCHANGED api_resp_dict
                     ELSE /\ api_resp_dict' = json_loads(out.api_resp)
                          /\ pc' = "loop"
                          /\ err' = None
    /\ UNCHANGED <<kwargs, PAGE_LIMIT_GLOBAL, PAGE_SLEEP_GLOBAL, result>>
    /\ UNCHANGED <<flatvars, csvvars, reqvars, mainvars>>

\* wrapper lines 116-119: the loop is left and the text is returned
Return ==
    /\ pc = "loop"
    /\ ~loop_cond(offset, limit, max_pages)
    /\ output_str' = close_output(output_str)
    /\ result' = output_str'
    /\ pc' = "done"
    /\ UNCHANGED <<kwargs, PAGE_LIMIT_GLOBAL, PAGE_SLEEP_GLOBAL, max_pages,
                   offset, api_resp_dict, trace, err>>
    /\ UNCHANGED <<flatvars, csvvars, reqvars, mainvars>>

\* ------------------------------------------------ flatten_and_save_json

\* JSON values: numbers, strings, null, objects (ordered key/value items)
\* and arrays
Num(n) == [t |-> "num", n |-> n]
Str(x) == [t |-> "str", v |-> x]
Null == [t |-> "null"]
Dict(items) == [t |-> "dict", items |-> items]
List(items) == [t |-> "list", items |-> items]
Item(k, v) == [k |-> k, v |-> v]

\* Python's `not object_`
IsFalsy(o) ==
    \/ o.t = "null"
    \/ o.t = "num" /\ o.n = 0
    \/ o.t = "str" /\ o.v = ""
    \/ o.t \in {"dict", "list"} /\ o.items = << >>

\* d[k] = v on a dict kept as its items in insertion order
DictSet(d, k, v) ==
    IF \E i \in 1..Len(d) : d[i].k = k
    THEN [i \in 1..Len(d) |-> IF d[i].k = k THEN Item(k, v) ELSE d[i]]
    ELSE Append(d, Item(k, v))

\* construct_key joining under the root too, whose key is None
construct_key_joins_root(previous_key, new_key) ==
    IF previous_key = ""
    THEN new_key
    ELSE previous_key \o "_" \o new_key

\* flatten_json's key of a child: parent, separator "_", child
construct_key(previous_key, new_key) ==
    IF previous_key = None \/ previous_key = ""
    THEN new_key
    ELSE previous_key \o "_" \o new_key

RECURSIVE flatten_object(_, _, _)
RECURSIVE flatten_children(_, _, _, _)

\* flatten_json's inner walk: the flattened dict d after object_ at key
flatten_object(d, object_, key) ==
    IF IsFalsy(object_) \/ object_.t \notin {"dict", "list"}
    THEN DictSet(d, key, object_)
    ELSE flatten_children(d, object_, key, 1)

\* the children of a dict or list from the i-th on, in order
flatten_children(d, object_, key, i) ==
    IF i > Len(object_.items) THEN d
    ELSE LET child == IF object_.t = "dict"
                      THEN object_.items[i].v
                      ELSE object_.items[i]
             ckey == IF object_.t = "dict"
                     THEN construct_key(key, object_.items[i].k)
                     ELSE construct_key(key, ToString(i - 1))
         IN  flatten_children(flatten_object(d, child, ckey), object_, key, i + 1)

\* flatten_json.flatten(record)
flatten(record) == flatten_object(<< >>, record, None)

\* json.dumps(flat): one document token
json_dumps(flat) == [tok |-> "object", value |-> flat]

\* text[:-1]: the text without its last character
DropLastChar(text) ==
    LET n == Len(text)
    IN  IF n = 0 THEN text
        ELSE IF text[n].tok \in {"[", "]", ","} THEN SubSeq(text, 1, n - 1)
        ELSE [text EXCEPT ![n] = Tok("truncated")]

RECURSIVE flatten_records(_, _, _)
\* the inner loop: the records of one data array from the i-th on
flatten_records(out, data, i) ==
    IF i > Len(data) THEN out
    ELSE flatten_records(out \o <<json_dumps(flatten(data[i])), COMMA>>, data, i + 1)

RECURSIVE flatten_pages(_, _, _)
\* the outer loop: the pages from the p-th on
flatten_pages(out, pages, p) ==
    IF p > Len(pages) THEN out
    ELSE flatten_pages(flatten_records(out, pages[p].data, 1), pages, p + 1)

\* drop the last comma
drop_last_comma(out) == DropLastChar(out)

flatten_and_save_json(pages) ==
    drop_last_comma(flatten_pages(<<LBRACKET>>, pages, 1)) \o <<RBRACKET>>

\* the records given to the flattener
RecordValues ==
    { Dict(<<Item("a", Str("x"))>>),
      Dict(<<Item("a", Dict(<<Item("b", Num(2))>>)), Item("d", Null)>>),
      Dict(<<Item("c", List(<<Num(3), Str("y")>>))>>) }
SeqsUpTo(S, n) == UNION {[1..k -> S] : k \in 0..n}
DataValues == SeqsUpTo(RecordValues, MaxPageRecords)
PageValues == {[pagination |-> [total |-> Len(d)], data |-> d] : d \in DataValues}
InputValues == SeqsUpTo(PageValues, MaxFlatPages) \ {<< >>}

PagIdle ==
    /\ kwargs = [api_route |-> None]
    /\ PAGE_LIMIT_GLOBAL = -1
    /\ PAGE_SLEEP_GLOBAL = 0
    /\ pc = "idle"
    /\ max_pages = -1
    /\ offset = 0
    /\ output_str = << >>
    /\ api_resp_dict = NoDict
    /\ trace = << >>
    /\ result = NoText
    /\ err = None

InitFlatten ==
    /\ PagIdle
    /\ CsvIdle
    /\ ReqIdle
    /\ MainIdle
    /\ input_json \in InputValues
    /\ flat_json = NoText
    /\ fpc = "start"

\* one call of flatten_and_save_json(input_json)
Flatten ==
    /\ fpc = "start"
    /\ flat_json' = flatten_and_save_json(input_json)
    /\ fpc' = "done"
    /\ UNCHANGED input_json
    /\ UNCHANGED <<pagvars, csvvars, reqvars, mainvars>>

NextFlatten == Flatten

SpecFlatten == InitFlatten /\ [][NextFlatten]_vars

Next == FirstFetch \/ LoopSleep \/ LoopFetch \/ Return

Spec == Init /\ [][Next]_vars

\* The wrapper is sequential code: the interpreter executes its next
\* statement, a request returns or raises, and a sleep of finitely many
\* seconds ends.
SpecFair == Init /\ [][Next]_vars /\ WF_vars(Next)

\* ------------------------------------------- transform_flat_json_to_csv

\* A CSV text is a sequence of characters. The strings of the model are
\* taken as one character each, free of commas and newlines, but for the
\* two that hold a comma or a newline.
Chars(x) ==
    CASE x = "x,y" -> <<"x", ",", "y">>
      [] x = "x\ny" -> <<"x", "\n", "y">>
      [] OTHER -> <<x>>

\* strftime('%Y-%m-%d %H:%M:%S') of the clock's reading t
Timestamp(t) == "ts" \o ToString(t)

\* key in record, record[key] on a dict kept as its items
HasKey(record, key) == \E j \in 1..Len(record) : record[j].k = key
GetItem(record, key) ==
    record[CHOOSE j \in 1..Len(record) : record[j].k = key].v

RECURSIVE Concat(_)
\* the texts of a sequence one after the other
Concat(texts) ==
    IF texts = << >> THEN << >> ELSE Head(texts) \o Concat(Tail(texts))

\* the keys of the model in the order of Python's string comparison
KeyOrder == <<"a", "a_b", "b", "c", "c_0", "c_1", "d">>
InSet(S, k) == k \in S

\* column_set after the two loops that add every key of every record
column_set(flat) ==
    UNION {{flat[i][j].k : j \in 1..Len(flat[i])} : i \in 1..Len(flat)}

\* sorted(column_set)
sorted(S) == SelectSeq(KeyOrder, LAMBDA k : InSet(S, k))

RECURSIVE arrival_order(_, _, _)
\* the keys of the batch in the order in which they first appear
arrival_order(flat, i, seen) ==
    IF i > Len(flat) THEN seen
    ELSE LET new == SelectSeq([j \in 1..Len(flat[i]) |-> flat[i][j].k],
                              LAMBDA k : \A m \in 1..Len(seen) : seen[m] # k)
         IN  arrival_order(flat, i + 1, seen \o new)

\* columns as a list grown in arrival order and never sorted
columns_unsorted(flat) == arrival_order(flat, 1, << >>)

\* lines 52-60: the columns of the batch
columns(flat) == sorted(column_set(flat))

\* lines 62-71: the header line
header_line(cols) ==
    Concat([j \in 1..Len(cols) |-> <<cols[j], ",">>]) \o <<"row_ts", "\n">>

\* lines 77-82: try: output_str += record[col] + ','  except: output_str += ','
\* (the lookup of an absent key raises, and so does adding ',' to a value
\* that is no string; nothing is appended before either exception)
field(record, col) ==
    IF HasKey(record, col) /\ GetItem(record, col).t = "str"
    THEN Chars(GetItem(record, col).v) \o <<",">>
    ELSE <<",">>

\* lines 74-88: one row, stamped with the clock's reading t
row(record, cols, t) ==
    Concat([j \in 1..Len(cols) |-> field(record, cols[j])])
        \o <<Timestamp(t), "\n">>

\* transform_flat_json_to_csv(flat_json), the clock reading clock[i] at row i
transform_flat_json_to_csv(flat, clock) ==
    LET cols == columns(flat)
    IN  header_line(cols)
            \o Concat([i \in 1..Len(flat) |-> row(flat[i], cols, clock[i])])

\* datetime.now(timezone.utc) at each of n rows: readings that do not go back
ClockReadings(n) ==
    {c \in [1..n -> 0..MaxClock] : \A i \in 1..n : \A j \in i..n : c[i] <= c[j]}

\* the flat records given to the tabulizer
FlatRecordValues ==
    { <<Item("a", Str("x")), Item("b", Str("y"))>>,
      <<Item("b", Str("y")), Item("c", Str("z"))>>,
      <<Item("a", Num(1))>>,
      <<Item("c", Null)>>,
      <<Item("a", Str("x,y"))>>,
      <<Item("b", Str("x\ny"))>> }
BatchValues == SeqsUpTo(FlatRecordValues, MaxBatch)

InitCsv ==
    /\ PagIdle
    /\ FlatIdle
    /\ ReqIdle
    /\ MainIdle
    /\ csv_in \in BatchValues
    /\ csv_output = NoText
    /\ csv_perm = << >>
    /\ csv_output2 = NoText
    /\ cpc = "start"

\* one call of transform_flat_json_to_csv(csv_in)
Tabulate ==
    /\ cpc = "start"
    /\ \E clock \in ClockReadings(Len(csv_in)) :
          csv_output' = transform_flat_json_to_csv(csv_in, clock)
    /\ cpc' = "done"
    /\ UNCHANGED <<csv_in, csv_perm, csv_output2>>
    /\ UNCHANGED <<pagvars, flatvars, reqvars, mainvars>>

\* the batch in the order csv_perm: its i-th record is csv_in[csv_perm[i]]
Permuted(flat, perm) == [i \in 1..Len(flat) |-> flat[perm[i]]]

\* a second call, on the same records arriving in another order
Retabulate ==
    /\ cpc = "done"
    /\ \E perm \in Permutations(1..Len(csv_in)) :
       \E clock \in ClockReadings(Len(csv_in)) :
          /\ csv_perm' = perm
          /\ csv_output2' = transform_flat_json_to_csv(Permuted(csv_in, perm), clock)
    /\ cpc' = "done2"
    /\ UNCHANGED <<csv_in, csv_output>>
    /\ UNCHANGED <<pagvars, flatvars, reqvars, mainvars>>

NextCsv == Tabulate \/ Retabulate

SpecCsv == InitCsv /\ [][NextCsv]_vars

\* ------------------------------------------------------ the request URL

\* os.getenv("AVIATIONSTACK_API_KEY")
AVIATIONSTACK_API_KEY == "key"

\* The URL is kept as its components in the order they are written: the
\* route of the path, then the query parameters.  An f-string formats None
\* as the text "None" and a number as its digits.
Param(name, value) == [name |-> name, value |-> value]

\* line 37: the base URL with the credential, limit and offset
base_url(api_route, api_key, lim, off) ==
    <<Param("route", api_route), Param("access_key", api_key),
      Param("limit", ToString(lim)), Param("offset", ToString(off))>>

\* if value is not None: req_url += f'&name={value}'
optional_param(name, value) ==
    IF value # None THEN <<Param(name, value)>> ELSE << >>

\* lines 184-185: req_url += f'&iataCode={iataCode}'; += f'&type={type}'
timetable_params(kw) ==
    <<Param("iataCode", kw.iataCode), Param("type", kw.type)>>

\* lines 165-185: the URL handed to urlopen
build_req_url(kw, lim, off) ==
    base_url(kw.api_route, AVIATIONSTACK_API_KEY, lim, off)
        \o optional_param("flight_date", kw.flight_date)
        \o optional_param("dep_iata", kw.departure_airport_iata)
        \o optional_param("arr_iata", kw.arrival_airport_iata)
        \o optional_param("flight_iata", kw.flight_iata)
        \o timetable_params(kw)

\* the keyword arguments of call_api_endpoint
FullKwargsValues ==
    [api_route : Routes,
     flight_date : Filter("2024-01-01"),
     departure_airport_iata : Filter("MKE"),
     arrival_airport_iata : Filter("ORD"),
     flight_iata : Filter("AA100"),
     iataCode : Filter("MKE"),
     type : Filter("departure")]

InitRequest ==
    /\ kwargs \in FullKwargsValues
    /\ PAGE_LIMIT_GLOBAL = -1
    /\ PAGE_SLEEP_GLOBAL \in {0, MIN_TIMETABLE_SLEEP}
    /\ pc = "idle"
    /\ max_pages = -1
    /\ offset \in {0, limit}
    /\ output_str = << >>
    /\ api_resp_dict = NoDict
    /\ trace = << >>
    /\ result = NoText
    /\ err = None
    /\ FlatIdle
    /\ CsvIdle
    /\ MainIdle
    /\ req_url = << >>
    /\ rpc = "start"

\* one call of call_api_endpoint(**kwargs, limit, offset), lines 151-194
CallApiEndpoint ==
    /\ rpc = "start"
    /\ IF check_args(kwargs, PAGE_SLEEP_GLOBAL) # None
       THEN /\ err' = check_args(kwargs, PAGE_SLEEP_GLOBAL)
            /\ rpc' = "raised"
            /\ UNCHANGED req_url
       ELSE /\ req_url' = build_req_url(kwargs, limit, offset)
            /\ \E r \in urlopen([offset |-> offset]) :
                  IF r = NoBody
                  THEN err' = TransportError /\ rpc' = "raised"
                  ELSE err' = None /\ rpc' = "returned"
    /\ UNCHANGED <<kwargs, PAGE_LIMIT_GLOBAL, PAGE_SLEEP_GLOBAL, pc, max_pages,
                   offset, output_str, api_resp_dict, trace, result>>
    /\ UNCHANGED <<flatvars, csvvars, mainvars>>

NextRequest == CallApiEndpoint

SpecRequest == InitRequest /\ [][NextRequest]_vars

\* ----------------------------------------------------------------- main

\* main's configuration: PAGE_LIMIT_GLOBAL = 3, PAGE_SLEEP_GLOBAL = 65
MAIN_PAGE_LIMIT == 3
MAIN_PAGE_SLEEP == 65

\* call_api_endpoint(api_route='timetable', iataCode='MKE', type='departure')
MainKwargs ==
    [api_route |-> "timetable",
     departure_airport_iata |-> None,
     arrival_airport_iata |-> None,
     iataCode |-> "MKE",
     type |-> "departure"]

\* The data array of the k-th returned page: the API sends records when
\* the page's offset is below the total it reports, none otherwise.
page_data(page, k) ==
    IF page.offset < page.total THEN <<api_data[k]>> ELSE << >>

\* json.loads(api_resp) of the text read back from the raw file
loaded_pages(text) ==
    LET docs == json_loads_array(text).docs
    IN  [k \in 1..Len(docs) |->
            [pagination |-> [total |-> docs[k].total],
             data |-> page_data(docs[k], k)]]

\* json.loads(flat_json): the flat records by their items
loaded_flat(text) ==
    LET docs == json_loads_array(text).docs
    IN  [i \in 1..Len(docs) |-> docs[i].value]

InitMain ==
    /\ kwargs = MainKwargs
    /\ PAGE_LIMIT_GLOBAL = MAIN_PAGE_LIMIT
    /\ PAGE_SLEEP_GLOBAL = MAIN_PAGE_SLEEP
    /\ pc = "start"
    /\ max_pages = PAGE_LIMIT_GLOBAL
    /\ offset = 0
    /\ output_str = << >>
    /\ api_resp_dict = NoDict
    /\ trace = << >>
    /\ result = NoText
    /\ err = None
    /\ input_json = << >>
    /\ flat_json = NoText
    /\ fpc = "idle"
    /\ CsvIdle
    /\ ReqIdle
    /\ api_data \in [1..MAIN_PAGE_LIMIT -> RecordValues]
    /\ files = NoFiles
    /\ mpc = "start"

\* lines 218-220: the exception of the paginated call leaves main
MainAbort ==
    /\ mpc = "start"
    /\ pc = "error"
    /\ mpc' = "failed"
    /\ UNCHANGED <<api_data, files>>
    /\ UNCHANGED <<pagvars, flatvars, csvvars, reqvars>>

\* lines 229-230: the returned text is written to api_call_output.json
MainSaveRaw ==
    /\ mpc = "start"
    /\ pc = "done"
    /\ files' = [files EXCEPT !.raw = TRUE]
    /\ mpc' = "saved_raw"
    /\ UNCHANGED api_data
    /\ UNCHANGED <<pagvars, flatvars, csvvars, reqvars>>

\* lines 233-238: the file is read back, parsed and flattened
MainFlatten ==
    /\ mpc = "saved_raw"
    /\ IF ~json_loads_array(result).ok
       THEN /\ mpc' = "failed"
            /\ UNCHANGED <<input_json, flat_json>>
       ELSE /\ input_json' = loaded_pages(result)
            /\ flat_json' = flatten_and_save_json(input_json')
            /\ mpc' = "flattened"
    /\ UNCHANGED <<fpc, api_data, files>>
    /\ UNCHANGED <<pagvars, csvvars, reqvars>>

\* line 242: the flat text is parsed and tabulated
MainTabulate ==
    /\ mpc = "flattened"
    /\ IF ~json_loads_array(flat_json).ok
       THEN /\ mpc' = "failed"
            /\ UNCHANGED csv_output
       ELSE /\ \E clock \in ClockReadings(Len(loaded_flat(flat_json))) :
                  csv_output' = transform_flat_json_to_csv(loaded_flat(flat_json), clock)
            /\ mpc' = "tabulated"
    /\ UNCHANGED <<csv_in, csv_perm, csv_output2, cpc, api_data, files>>
    /\ UNCHANGED <<pagvars, flatvars, reqvars>>

\* lines 248-253: flat_output.json and timetable_data.csv are written
MainSaveOutputs ==
    /\ mpc = "tabulated"
    /\ files' = [files EXCEPT !.flat = TRUE, !.csv = TRUE]
    /\ mpc' = "done"
    /\ UNCHANGED api_data
    /\ UNCHANGED <<pagvars, flatvars, csvvars, reqvars>>

NextMain ==
    \/ FirstFetch \/ LoopSleep \/ LoopFetch \/ Return
    \/ MainAbort \/ MainSaveRaw \/ MainFlatten \/ MainTabulate
    \/ MainSaveOutputs

SpecMain == InitMain /\ [][NextMain]_vars

\* ------------------------------------------------------------ properties

IsRequest(e) == e.kind = "request"
IsSleep(e) == e.kind = "sleep"
Requests == SelectSeq(trace, IsRequest)
NumRequests == Len(Requests)
NumSleeps == Len(SelectSeq(trace, IsSleep))
Terminal == pc \in {"done", "error"}
\* the first page has been fetched and parsed
HasFirstPage == Len(output_str) >= 2 /\ output_str[2].wellformed
FirstTotal == output_str[2].total
\* the pages of the text built so far
PagesSoFar == SelectSeq(output_str, IsDoc)
CeilDiv(a, b) == (a + b - 1) \div b
Min(a, b) == IF a <= b THEN a ELSE b
Max(a, b) == IF a >= b THEN a ELSE b
ReturnedPages == json_loads_array(result)

\* C1: a completed run with a page cap max_pages >= 1 has issued exactly
\* min(ceil(total/limit), max_pages) fetches, and at least 1, where total is
\* the first page's pagination.total.
C1_CappedPageCount ==
    (pc = "done" /\ PAGE_LIMIT_GLOBAL >= 1) =>
        NumRequests = Max(1, Min(CeilDiv(FirstTotal, 100), PAGE_LIMIT_GLOBAL))

\* C2: a completed run with max_pages = -1 and a first total > 0 has issued
\* exactly ceil(total/limit) fetches.
C2_UnboundedPageCount ==
    (pc = "done" /\ PAGE_LIMIT_GLOBAL = -1 /\ FirstTotal > 0) =>
        NumRequests = CeilDiv(FirstTotal, 100)

\* C3: once the first page has reported pagination.total = 0, with any
\* positive cap or the sentinel -1, only one request is ever issued (no sleep
\* or second request follows) and the run returns exactly one page.
C3_ZeroTotalOnePage ==
    (HasFirstPage /\ FirstTotal = 0
        /\ (PAGE_LIMIT_GLOBAL >= 1 \/ PAGE_LIMIT_GLOBAL = -1)) =>
            /\ NumRequests = 1
            /\ NumSleeps = 0
            /\ pc \in {"loop", "done"}
            /\ pc = "done" => (ReturnedPages.ok /\ Len(ReturnedPages.docs) = 1)

C3_Witness ==
    /\ pc = "done"
    /\ FirstTotal = 0
    /\ PAGE_LIMIT_GLOBAL > 1
    /\ Len(ReturnedPages.docs) = 1

\* C4: on the timetable route with a delay below 62 seconds no request is
\* ever issued and nothing is returned: the run can only fail.
C4_TimetableDelayFailsFast ==
    (kwargs.api_route = "timetable" /\ PAGE_SLEEP_GLOBAL < 62) =>
        /\ NumRequests = 0
        /\ result = NoText
        /\ pc \in {"start", "error"}
        /\ pc = "error" => err \notin {None, TransportError, "JSONDecodeError"}

C4_Witness ==
    /\ pc = "error"
    /\ kwargs.api_route = "timetable"
    /\ kwargs.iataCode # None
    /\ kwargs.type # None
    /\ PAGE_SLEEP_GLOBAL = 30
    /\ err = "PAGE_SLEEP_GLOBAL must be >= 62"
    /\ trace = << >>

\* the route-required filters of the claim
MissingRequiredFilters ==
    \/ kwargs.api_route = None
    \/ /\ kwargs.api_route = "flights"
       /\ kwargs.departure_airport_iata = None
       /\ kwargs.arrival_airport_iata = None
    \/ /\ kwargs.api_route = "timetable"
       /\ (kwargs.iataCode = None \/ kwargs.type = None)
DelayValid == kwargs.api_route = "timetable" => PAGE_SLEEP_GLOBAL >= 62

\* C5: with a route-required filter missing no request is ever issued and the
\* run can only fail; with the required filters present and a valid delay
\* the first step of the run issues the first request.
C5_MissingFiltersFailFast ==
    /\ MissingRequiredFilters =>
          (NumRequests = 0 /\ pc \in {"start", "error"} /\ result = NoText)
    /\ (pc # "start" /\ ~MissingRequiredFilters /\ DelayValid) =>
          (NumRequests >= 1 /\ Requests[1].offset = 0)

C5_Witness ==
    /\ pc = "error"
    /\ kwargs.api_route = "flights"
    /\ kwargs.departure_airport_iata = None
    /\ kwargs.arrival_airport_iata = None
    /\ trace = << >>

\* every page fetched so far reported the total t
AllTotals(t) == \A i \in 1..Len(PagesSoFar) : PagesSoFar[i].total = t

\* C6: the k-th request carries limit = 100 and offset = (k-1)*100; and a
\* completed run with max_pages = -1 whose pages all report total 250 has
\* issued exactly the requests at offsets 0, 100, 200.
C6_RequestOffsets ==
    /\ \A k \in 1..NumRequests :
          Requests[k].limit = 100 /\ Requests[k].offset = (k - 1) * 100
    /\ (pc = "done" /\ PAGE_LIMIT_GLOBAL = -1 /\ AllTotals(250)) =>
          [k \in 1..NumRequests |-> Requests[k].offset] = <<0, 100, 200>>

C6_Witness ==
    /\ pc = "done"
    /\ PAGE_LIMIT_GLOBAL = -1
    /\ AllTotals(250)
    /\ NumRequests = 3

\* C7: with a delay > 0 the first event of a run is a request, every later
\* request directly follows one sleep of the configured duration, and every
\* sleep directly follows a request; with a delay of 0 there is no sleep;
\* a run that has ended ends with a request, so n requests come with n-1
\* sleeps (delay > 0) or none (delay = 0).
C7_SleepOrdering ==
    /\ PAGE_SLEEP_GLOBAL = 0 => NumSleeps = 0
    /\ PAGE_SLEEP_GLOBAL > 0 =>
          \A i \in 1..Len(trace) :
             /\ i = 1 => IsRequest(trace[i])
             /\ (i > 1 /\ IsRequest(trace[i])) =>
                   (IsSleep(trace[i - 1]) /\ trace[i - 1].secs = PAGE_SLEEP_GLOBAL)
             /\ (i > 1 /\ IsSleep(trace[i])) => IsRequest(trace[i - 1])
    /\ (Terminal /\ NumRequests >= 1) =>
          /\ IsRequest(trace[Len(trace)])
          /\ NumSleeps = IF PAGE_SLEEP_GLOBAL > 0 THEN NumRequests - 1 ELSE 0

C7_Witness ==
    /\ pc = "done"
    /\ PAGE_SLEEP_GLOBAL > 0
    /\ NumRequests = 3
    /\ NumSleeps = 2

\* C8: a request that failed with a transport error is the last thing the
\* run did: the run is in error with that exception, nothing was returned,
\* no step can follow, and no offset was requested twice.
C8_TransportErrorAborts ==
    /\ \A i \in 1..Len(trace) :
          (IsRequest(trace[i]) /\ trace[i].failed) =>
             /\ i = Len(trace)
             /\ pc = "error"
             /\ err = TransportError
             /\ result = NoText
    /\ pc = "error" => (result = NoText /\ ~ENABLED Next)
    /\ \A j, k \in 1..NumRequests :
          Requests[j].offset = Requests[k].offset => j = k

C8_Witness ==
    /\ pc = "error"
    /\ err = TransportError
    /\ NumRequests = 3
    /\ Len(PagesSoFar) = 2

\* C9: the text a run returns parses as an array of at least one page, one
\* per request issued, the i-th page being the response to the i-th request
\* (offset (i-1)*100), whatever max_pages and the totals are.
C9_ReturnedPagesInOrder ==
    pc = "done" =>
        /\ ReturnedPages.ok
        /\ Len(ReturnedPages.docs) >= 1
        /\ Len(ReturnedPages.docs) = NumRequests
        /\ \A i \in 1..Len(ReturnedPages.docs) :
              /\ ReturnedPages.docs[i].tok = "page"
              /\ ReturnedPages.docs[i].offset = (i - 1) * 100
              /\ ReturnedPages.docs[i].offset = Requests[i].offset

C9_Witness ==
    /\ pc = "done"
    /\ ReturnedPages.ok
    /\ Len(ReturnedPages.docs) = 3

RECURSIVE AllRecords(_)
\* the records of a list of pages, page by page
AllRecords(pages) ==
    IF pages = << >> THEN << >>
    ELSE Head(pages).data \o AllRecords(Tail(pages))

\* C10: for every list of pages, those with an empty data array included,
\* the text flatten_and_save_json returns parses as an array holding exactly
\* the flattened records of the pages, in page and record order.
C10_FlattenOneRecordPerInput ==
    fpc = "done" =>
        LET recs == AllRecords(input_json)
            out == json_loads_array(flat_json)
        IN  /\ out.ok
            /\ out.docs = [i \in 1..Len(recs) |-> json_dumps(flatten(recs[i]))]

\* a timestamp of the text, and the text with every timestamp written "ts"
IsTimestamp(c) == c \in {Timestamp(t) : t \in 0..MaxClock}
Untimed(text) ==
    [i \in 1..Len(text) |-> IF IsTimestamp(text[i]) THEN "ts" ELSE text[i]]

\* the scalar representation of a value; rn is the one chosen for null
Repr(v, rn) ==
    CASE v.t = "str" -> Chars(v.v)
      [] v.t = "num" -> <<ToString(v.n)>>
      [] OTHER -> rn
NullReprs == {<<"null">>, <<"None">>, <<"NULL">>}

\* the CSV text the claim describes for a batch
ExpectedField(record, col, rn) ==
    IF HasKey(record, col) THEN Repr(GetItem(record, col), rn) ELSE << >>
ExpectedRow(record, cols, rn) ==
    Concat([j \in 1..Len(cols) |-> ExpectedField(record, cols[j], rn) \o <<",">>])
        \o <<"ts", "\n">>
ExpectedCsv(flat, rn) ==
    LET cols == sorted(column_set(flat))
    IN  Concat([j \in 1..Len(cols) |-> <<cols[j], ",">>]) \o <<"row_ts", "\n">>
            \o Concat([i \in 1..Len(flat) |-> ExpectedRow(flat[i], cols, rn)])

\* C11: the returned text is the header of the sorted union of all keys and
\* the timestamp column, then one row per record that holds, column by
\* column, the record's value when the key is present (a string, a number
\* or null, in its scalar representation) and nothing when it is absent.
C11_ValuesAtColumns ==
    cpc \in {"done", "done2"} =>
        \E rn \in NullReprs : Untimed(csv_output) = ExpectedCsv(csv_in, rn)

\* the lines of a text: the stretches that end at each newline
NewlineAt(text) == {i \in 1..Len(text) : text[i] = "\n"}
NthOf(S, k) == CHOOSE e \in S : Cardinality({f \in S : f <= e}) = k
LineOf(text, k) ==
    LET ends == NewlineAt(text)
        from == IF k = 1 THEN 1 ELSE NthOf(ends, k - 1) + 1
    IN  SubSeq(text, from, NthOf(ends, k) - 1)
FieldCount(line) == Len(SelectSeq(line, LAMBDA c : c = ",")) + 1

\* C12: the text returned for n records is n + 1 newline-terminated lines,
\* each of |ColumnSet| + 1 comma-delimited fields, whatever scalars the
\* records hold, strings with a comma or a newline included.
C12_LinesAndFields ==
    cpc \in {"done", "done2"} =>
        /\ csv_output # << >>
        /\ csv_output[Len(csv_output)] = "\n"
        /\ Cardinality(NewlineAt(csv_output)) = Len(csv_in) + 1
        /\ \A k \in 1..Cardinality(NewlineAt(csv_output)) :
              FieldCount(LineOf(csv_output, k))
                  = Cardinality(column_set(csv_in)) + 1

\* what a call emitted for the header (k = 0) and for its k-th record: the
\* text up to the k-th "row_ts" or timestamp, that stamp left out
StampAt(text) ==
    {i \in 1..Len(text) : text[i] = "row_ts" \/ IsTimestamp(text[i])}
Emitted(text, k) ==
    LET stamps == StampAt(text)
        from == IF k = 0 THEN 1 ELSE NthOf(stamps, k) + 2
    IN  SubSeq(text, from, NthOf(stamps, k + 1) - 1)

\* C13: when the same records arrive in another order the header is the
\* same, and what is emitted for each record, its timestamp apart, is what
\* was emitted for it in the first order.
C13_OrderIndependent ==
    cpc = "done2" =>
        /\ Cardinality(StampAt(csv_output)) = Len(csv_in) + 1
        /\ Cardinality(StampAt(csv_output2)) = Len(csv_in) + 1
        /\ Emitted(csv_output2, 0) = Emitted(csv_output, 0)
        /\ \A i \in 1..Len(csv_in) :
              Emitted(csv_output2, i) = Emitted(csv_output, csv_perm[i])

C13_Witness ==
    /\ cpc = "done2"
    /\ Len(csv_in) = 2
    /\ csv_perm = <<2, 1>>
    /\ HasKey(csv_in[1], "a") /\ HasKey(csv_in[1], "b")
    /\ HasKey(csv_in[2], "b") /\ HasKey(csv_in[2], "c")
    /\ Emitted(csv_output, 0) = <<"a", ",", "b", ",", "c", ",">>
    /\ Emitted(csv_output2, 1) = <<",", "y", ",", "z", ",">>

\* a record whose values are all scalars
IsScalar(v) == v.t \in {"str", "num", "null"}
AllScalar(record) == \A j \in 1..Len(record.items) : IsScalar(record.items[j].v)
\* the flat records of the returned text
FlatDocs == SelectSeq(flat_json, IsDoc)

\* C14: flattening a record whose values are all scalars yields the same
\* keys and values, and flattening any flattened record again yields it
\* unchanged.
C14_FlattenIdempotent ==
    fpc = "done" =>
        LET recs == AllRecords(input_json)
        IN  /\ Len(FlatDocs) = Len(recs)
            /\ \A i \in 1..Len(recs) :
                  /\ AllScalar(recs[i]) => FlatDocs[i].value = recs[i].items
                  /\ flatten(Dict(FlatDocs[i].value)) = FlatDocs[i].value

C14_Witness ==
    /\ fpc = "done"
    /\ Len(FlatDocs) = 2
    /\ AllScalar(AllRecords(input_json)[1])
    /\ ~AllScalar(AllRecords(input_json)[2])
    /\ FlatDocs[2].value = <<Item("a_b", Num(2)), Item("d", Null)>>

\* the number of requests of a completed run, from the first page's total and
\* the cap alone
RequestsFixed(total, cap) ==
    LET possible == (total \div 100) + 1
    IN  Max(1, IF cap = -1 THEN possible ELSE Min(possible, cap))

\* C15: once the first page is parsed the number of requests is fixed by its
\* total and by max_pages: the loop bound never changes afterwards, no run
\* issues more requests than that, and a completed run has issued exactly
\* that many, at offsets 0, 100, 200, ..., whatever the later pages report.
C15_RequestCountFixed ==
    HasFirstPage =>
        /\ max_pages = (IF PAGE_LIMIT_GLOBAL = -1
                        THEN (FirstTotal \div 100) + 1
                        ELSE Min((FirstTotal \div 100) + 1, PAGE_LIMIT_GLOBAL))
        /\ NumRequests <= RequestsFixed(FirstTotal, PAGE_LIMIT_GLOBAL)
        /\ pc = "done" =>
              /\ NumRequests = RequestsFixed(FirstTotal, PAGE_LIMIT_GLOBAL)
              /\ \A k \in 1..NumRequests : Requests[k].offset = (k - 1) * 100

C15_Witness ==
    /\ pc = "done"
    /\ HasFirstPage
    /\ FirstTotal = 200
    /\ NumRequests = 3
    /\ Len(PagesSoFar) = 3
    /\ PagesSoFar[2].total = 0
    /\ PagesSoFar[3].total = 250

\* the most requests a run may issue, from what is known of the first page
RequestBound ==
    IF HasFirstPage THEN Max(1, (FirstTotal \div 100) + 1) ELSE 1

\* C16: every run terminates, by an error or by returning, whatever the
\* first total, max_pages (positive, 0, -1 or another negative value) and
\* the later responses are, and it never issues more than
\* max(1, floor(total/100) + 1) requests.
C16_TerminatesBounded ==
    /\ <>Terminal
    /\ [](NumRequests <= RequestBound)

C16_Witness ==
    /\ pc = "done"
    /\ PAGE_LIMIT_GLOBAL = -1
    /\ FirstTotal = 250
    /\ NumRequests = 3
    /\ RequestBound = 3
    /\ PagesSoFar[2].total = 0

\* the names of the URL's query parameters and the value sent under a name
ParamNames == {req_url[i].name : i \in 2..Len(req_url)}
ParamValue(name) ==
    req_url[CHOOSE i \in 2..Len(req_url) : req_url[i].name = name].value
Sent == req_url # << >>
\* the flights-route filters the caller supplied, under their URL names
SuppliedFlightsFilters ==
    {n \in {"flight_date", "dep_iata", "arr_iata", "flight_iata"} :
        CASE n = "flight_date" -> kwargs.flight_date # None
          [] n = "dep_iata" -> kwargs.departure_airport_iata # None
          [] n = "arr_iata" -> kwargs.arrival_airport_iata # None
          [] n = "flight_iata" -> kwargs.flight_iata # None}
BaseParams == {"access_key", "limit", "offset"}

\* C17: a request for the flights route carries the pagination parameters,
\* the credential and the supplied flights filters and neither iataCode nor
\* type; a request for the timetable route carries iataCode and type with
\* the caller's values and only the flights filters that were supplied.
C17_RouteParameters ==
    Sent =>
        /\ kwargs.api_route = "flights" =>
              ParamNames = BaseParams \cup SuppliedFlightsFilters
        /\ kwargs.api_route = "timetable" =>
              /\ ParamNames = BaseParams \cup SuppliedFlightsFilters
                                \cup {"iataCode", "type"}
              /\ ParamValue("iataCode") = kwargs.iataCode
              /\ ParamValue("type") = kwargs.type

AllFiles == [raw |-> TRUE, flat |-> TRUE, csv |-> TRUE]

\* C18: a run of main either completes pagination, flattening and
\* tabulation and has written all three artifacts, or it fails and none of
\* the three has been written.
C18_AllOrNothing ==
    /\ mpc = "done" => files = AllFiles
    /\ mpc = "failed" => files = NoFiles

=============================================================================
